---------------------------- MODULE Spec2Model ----------------------------
(***************************************************************************)
(* Model of the videotools backend:                                        *)
(*   - backend/main.py: the queue/thread bridge of analyze_video and       *)
(*     split_video (event_generator, run_detection, run_split);            *)
(*   - backend/services/video_processor.py: detect_scenes, split_video;    *)
(*   - backend/services/video_grouper.py: group_scenes.                    *)
(*                                                                         *)
(* The specifications share the variables:                                 *)
(*   Spec       one job (analyze or split) run through the bridge;         *)
(*   FairSpec   Spec with its steps scheduled fairly;                      *)
(*   SpecDisconnect  the bridge with a client that may disconnect;         *)
(*   SpecJobs   several requests served at once, one bridge each;          *)
(*   SpecSplit  split_video called directly (command lines, paths);        *)
(*   SpecGroup  group_scenes.                                              *)
(*                                                                         *)
(* Times are integers in microseconds.  Wall-clock values of the progress  *)
(* records (fps, eta) are left out: no modelled decision reads them.       *)
(***************************************************************************)
EXTENDS Integers, Sequences, FiniteSets, TLC

VARIABLES
    \* ---- the bridge (main.py event_generator) ----
    kind,              \* "analyze" | "split" | "group": which entry point runs
    cpc,               \* position of event_generator (the consumer)
    wpc,               \* position of the worker thread (run_detection / run_split)
    q,                 \* queue.Queue: the items posted and not yet taken
    out,               \* the records yielded by event_generator, in order
    result_container,  \* [keys, data, error]: the dict shared with the worker
    posted,            \* every progress record the worker put on q (history)
    exitedBy,          \* how the relay loop ended: "none" | "sentinel" | "liveness"
    \* ---- the job (video_processor.py) ----
    jpc,               \* position inside detect_scenes / split_video
    exc,               \* the exception in flight: [cls, msg]
    callback,          \* TRUE when a progress callback was passed
    video,             \* [total_frames, frames, cuts, fps]: what open_video gives
    frame_num,         \* detect_scenes: frames read so far
    scenes,            \* split_video: the input list of <<start, end>>
    frame_duration,    \* split_video: microseconds
    sp_i,              \* split_video: loop index i (0-based)
    cmds,              \* split_video: the ffmpeg invocations made, in order
    rcodes,            \* the exit status of each invocation, in order
    created_files,     \* split_video: created_files
    \* ---- group_scenes (video_grouper.py) ----
    gpc,               \* position inside group_scenes
    batch_i,           \* the batch loop index i
    processed_scenes,  \* the copies of the scenes; group_id 0 stands for no key
    group_id_offset,   \* the group id counter
    thumbnails,        \* the batch's thumbnails list: the scene indices written
    thumb_bytes,       \* what each written thumbnail file holds
    thumb_calls,       \* the generate_thumbnail calls of the batch (history)
    queries,           \* the batch index of each ollama.chat call (history)
    responses,         \* what each ollama.chat call gave back (history)
    groups,            \* the decoded response being applied
    group_k,           \* how many entries of groups were taken
    glog               \* what each finished batch did (history)

\* the inputs of a run: set by Init, never changed
inputs == <<kind, callback, video, scenes>>
consumerVars == <<cpc, out, exitedBy>>
workerVars == <<wpc, result_container>>
queueVars == <<q, posted>>
jobCtl == <<jpc, exc>>
splitVars == <<frame_duration, sp_i, cmds, rcodes, created_files>>
grpVars == <<gpc, batch_i, processed_scenes, group_id_offset, thumbnails,
             thumb_bytes, thumb_calls, queries, responses, groups, group_k, glog>>
vars == <<inputs, consumerVars, workerVars, queueVars, jobCtl, frame_num,
          splitVars, grpVars>>

-----------------------------------------------------------------------------
(* Bounds of the model *)

\* longest video read by detect_scenes, in frames
MaxFrames == 60
\* longest scene list given to split_video
MaxSplitScenes == 3

-----------------------------------------------------------------------------
(* Helpers *)

Min(a, b) == IF a < b THEN a ELSE b

Last(s) == s[Len(s)]

\* None, the sentinel run_detection / run_split put on the queue
None == [type |-> "None"]

NoExc == [cls |-> "none", msg |-> ""]

EmptyContainer == [keys |-> {}, data |-> <<>>, error |-> ""]

IsTerminal(r) == r.type \in {"complete", "error"}

IsProgress(r) == r.type = "progress"

Terminals(s) == {k \in 1..Len(s) : IsTerminal(s[k])}

ProgressOf(s) == SelectSeq(s, IsProgress)


-----------------------------------------------------------------------------
(* video_processor.py: detect_scenes *)

\* a mutant of QueueFull: a queue made with maxsize 1
QueueFullAtOne(queue) == Len(queue) >= 1

\* main.py lines 81 / 157: q = queue.Queue() has no maxsize, so q.put never
\* finds the queue full and never waits
QueueFull(queue) == FALSE

\* callback(...) as main.py defines it: q.put of one progress record
Post(item) ==
    IF callback
    THEN /\ ~QueueFull(q)
         /\ q' = Append(q, item)
         /\ posted' = Append(posted, item)
    ELSE UNCHANGED <<q, posted>>

\* len(scene_manager._cutting_list) once frames 0 .. n-1 went through
\* _process_frame
NumCuts(n) == Cardinality({c \in video.cuts : c < n})

\* a mutant of ScenesSoFar: one scene is counted before any cut
ScenesSoFarPlusOne(num_cuts) == num_cuts + 1

\* lines 89-93 and line 102: cuts + 1, or 0 while no cut was found
ScenesSoFar(num_cuts) == IF num_cuts = 0 THEN 0 ELSE num_cuts + 1

\* a mutant of DetectProgress: the min(100, ...) cap is missing
DetectProgressUncapped(n, total) == (n * 100) \div total

\* line 82: min(100, int((frame_num / total_frames) * 100)).  For the frame
\* counts of this model the float quotient truncates to the integer quotient.
DetectProgress(n, total) == Min(100, (n * 100) \div total)

\* the k-th smallest cut (1-based)
RECURSIVE SortedCuts(_)
SortedCuts(S) ==
    IF S = {} THEN <<>>
    ELSE LET m == CHOOSE x \in S : \A y \in S : x <= y
         IN  <<m>> \o SortedCuts(S \ {m})

\* lines 107-112: scene_manager._last_pos = base_timecode + frame_num, in
\* frames (base_timecode is frame 0)
LastPos(n) == 0 + n

\* lines 121-122: FrameTimecode.get_seconds(), frame / fps, in microseconds
\* (the frame rates of the model divide 1000000)
GetSeconds(f) == (f * 1000000) \div video.fps

\* lines 114-124: the (start, end) pairs get_scene_list builds from the cut
\* list: the scenes run from the start position over the cuts to
\* _last_pos + 1, and no cut gives no scene (start_in_scene is not set);
\* then each bound in seconds
DetectResult ==
    LET cl == SortedCuts({c \in video.cuts : c > 0 /\ c < frame_num})
        b  == <<0>> \o cl \o <<LastPos(frame_num) + 1>>
    IN  IF cl = <<>> THEN <<>>
        ELSE [k \in 1..(Len(b) - 1) |->
                 <<GetSeconds(b[k]), GetSeconds(b[k + 1])>>]

\* line 18: open_video
DetectOpen ==
    /\ kind = "analyze" /\ wpc = "job" /\ jpc = "open"
    /\ IF video.opens
       THEN jpc' = "loop" /\ exc' = exc
       ELSE jpc' = "raised" /\ exc' = [cls |-> "Exception", msg |-> "open_video failed"]
    /\ UNCHANGED <<inputs, consumerVars, workerVars, queueVars, frame_num,
                   splitVars, grpVars>>

\* lines 47-98: one iteration of the read loop that reads a frame
DetectFrame ==
    /\ kind = "analyze" /\ wpc = "job" /\ jpc = "loop"
    /\ frame_num < video.frames
    /\ frame_num' = frame_num + 1
    /\ IF video.total_frames > 0 /\ frame_num' % 30 = 0
       THEN Post([type |-> "progress",
                  value |-> DetectProgress(frame_num', video.total_frames),
                  scenes |-> ScenesSoFar(NumCuts(frame_num'))])
       ELSE UNCHANGED <<q, posted>>
    /\ UNCHANGED <<inputs, consumerVars, workerVars, jobCtl, splitVars, grpVars>>

\* lines 48-53: video.read() gives None / False: the loop ends
DetectEOF ==
    /\ kind = "analyze" /\ wpc = "job" /\ jpc = "loop"
    /\ frame_num = video.frames
    /\ jpc' = "final"
    /\ UNCHANGED <<inputs, consumerVars, workerVars, queueVars, exc, frame_num,
                   splitVars, grpVars>>

\* lines 100-103: the final callback(100, 0.0, 0.0, final_scenes)
DetectFinal ==
    /\ kind = "analyze" /\ wpc = "job" /\ jpc = "final"
    /\ Post([type |-> "progress", value |-> 100,
             scenes |-> ScenesSoFar(NumCuts(frame_num))])
    /\ jpc' = "post"
    /\ UNCHANGED <<inputs, consumerVars, workerVars, exc, frame_num, splitVars,
                   grpVars>>

\* lines 105-124: post-processing and return scenes_seconds
DetectReturn ==
    /\ kind = "analyze" /\ wpc = "job" /\ jpc = "post"
    /\ jpc' = "returned"
    /\ UNCHANGED <<inputs, consumerVars, workerVars, queueVars, exc, frame_num,
                   splitVars, grpVars>>

\* an exception out of the decoder, cv2 or the scene manager while the job
\* runs; BaseException stands for one that "except Exception" does not catch
DetectRaise ==
    /\ kind = "analyze" /\ wpc = "job" /\ jpc \in {"loop", "final", "post"}
    /\ \E c \in {"Exception", "BaseException"} :
          exc' = [cls |-> c, msg |-> "detect failed"]
    /\ jpc' = "raised"
    /\ UNCHANGED <<inputs, consumerVars, workerVars, queueVars, frame_num,
                   splitVars, grpVars>>

-----------------------------------------------------------------------------
(* video_processor.py: split_video *)

\* the decimal digits of n >= 0, most significant first
RECURSIVE Digits(_)
Digits(n) == IF n < 10 THEN <<n>> ELSE Digits(n \div 10) \o <<n % 10>>

\* f"{n:03d}": the digits of n, zero-padded on the left to three at least
Pad3(n) ==
    LET d == Digits(n)
    IN  IF Len(d) >= 3 THEN d
        ELSE [k \in 1..(3 - Len(d)) |-> 0] \o d

\* f"{x:.3f}" of a time x in microseconds: the milliseconds of the text.
\* The text is the decimal nearest to the double; for a decimal half-way case
\* the double lies on either side, so both neighbours are possible.
Format3(x) ==
    LET lo == x \div 1000
        r  == x % 1000
    IN  IF r < 500 THEN {lo}
        ELSE IF r > 500 THEN {lo + 1}
        ELSE {lo, lo + 1}

\* lines 141-146: 1.0 / fps if fps > 0 else 0.033, and 0.033 when open_video
\* raises; in microseconds (the fps values of the model divide 500000)
FrameDuration(v) ==
    IF ~v.opens THEN 33000
    ELSE IF v.fps > 0 THEN 1000000 \div v.fps ELSE 33000

\* a mutant of AdjStart: the half frame is added to the first scene too
AdjStartAlways(i, start, fd) == start + fd \div 2

\* lines 164-166: adj_start
AdjStart(i, start, fd) == IF i > 0 THEN start + fd \div 2 ELSE start

\* a mutant of OutputFile: the extension of the input file is kept
OutputFileKeepExt(i) == [base |-> video.name, num |-> Pad3(i + 1), ext |-> video.ext]

\* line 153: os.path.join(output_dir, f"{name}_scene_{i+1:03d}{ext}") with
\* name the input's base name without extension (line 134) and ext forced
\* to ".mp4" on line 150
OutputFile(i) == [base |-> video.name, num |-> Pad3(i + 1), ext |-> ".mp4"]

\* line 186: int(((i + 1) / total_scenes) * 100); exact for the list lengths
\* of this model
SplitProgress(i, total) == ((i + 1) * 100) \div total

\* the exit status of one ffmpeg run
ExitCodes == {0, 1}

\* lines 130-150: makedirs, name/ext, open_video for the frame rate
SplitOpen ==
    /\ kind = "split" /\ wpc = "job" /\ jpc = "open"
    /\ jpc' = "loop"
    /\ frame_duration' = FrameDuration(video)
    /\ UNCHANGED <<inputs, consumerVars, workerVars, queueVars, exc, frame_num,
                   sp_i, cmds, rcodes, created_files, grpVars>>

\* lines 152-187: one iteration of the loop over the scenes: build the
\* command, run it (its exit status is not read), append the output file,
\* report progress
SplitScene ==
    /\ kind = "split" /\ wpc = "job" /\ jpc = "loop"
    /\ sp_i < Len(scenes)
    /\ LET start == scenes[sp_i + 1][1]
           end   == scenes[sp_i + 1][2]
       IN  \E ss \in Format3(AdjStart(sp_i, start, frame_duration)) :
             cmds' = Append(cmds, [ss |-> ss, t |-> end - start,
                                   output_file |-> OutputFile(sp_i)])
    /\ \E rc \in ExitCodes : rcodes' = Append(rcodes, rc)
    /\ created_files' = Append(created_files, OutputFile(sp_i))
    /\ Post([type |-> "progress", value |-> SplitProgress(sp_i, Len(scenes))])
    /\ sp_i' = sp_i + 1
    /\ UNCHANGED <<inputs, consumerVars, workerVars, jobCtl, frame_num,
                   frame_duration, grpVars>>

\* line 189: return created_files
SplitReturn ==
    /\ kind = "split" /\ wpc = "job" /\ jpc = "loop"
    /\ sp_i = Len(scenes)
    /\ jpc' = "returned"
    /\ UNCHANGED <<inputs, consumerVars, workerVars, queueVars, exc, frame_num,
                   splitVars, grpVars>>

\* an exception out of os.makedirs or subprocess.run (the program cannot be
\* started); the exit status of a run that started raises nothing
SplitRaise ==
    /\ kind = "split" /\ wpc = "job"
    /\ \/ jpc = "open"
       \/ jpc = "loop" /\ sp_i < Len(scenes)
    /\ \E c \in {"Exception", "BaseException"} :
          exc' = [cls |-> c, msg |-> "split failed"]
    /\ jpc' = "raised"
    /\ UNCHANGED <<inputs, consumerVars, workerVars, queueVars, frame_num,
                   splitVars, grpVars>>

-----------------------------------------------------------------------------
(* main.py: run_detection / run_split, the worker thread *)

\* what the job returned: scenes (line 92) or files (line 166)
JobResult == IF kind = "analyze" THEN DetectResult ELSE created_files

\* lines 93 / 172: result_container['data'] = ...
StoreData ==
    /\ wpc = "job" /\ jpc = "returned"
    /\ result_container' = [result_container EXCEPT
                              !.keys = @ \cup {"data"}, !.data = JobResult]
    /\ wpc' = "finally"
    /\ UNCHANGED <<inputs, consumerVars, queueVars, jobCtl, frame_num,
                   splitVars, grpVars>>

\* lines 94-95 / 173-174: except Exception as ex: ['error'] = str(ex)
StoreError ==
    /\ wpc = "job" /\ jpc = "raised" /\ exc.cls = "Exception"
    /\ result_container' = [result_container EXCEPT
                              !.keys = @ \cup {"error"}, !.error = exc.msg]
    /\ wpc' = "finally"
    /\ UNCHANGED <<inputs, consumerVars, queueVars, jobCtl, frame_num,
                   splitVars, grpVars>>

\* an exception that "except Exception" does not catch goes on to the
\* finally clause with nothing stored
Uncaught ==
    /\ wpc = "job" /\ jpc = "raised" /\ exc.cls = "BaseException"
    /\ wpc' = "finally"
    /\ UNCHANGED <<inputs, consumerVars, result_container, queueVars, jobCtl,
                   frame_num, splitVars, grpVars>>

\* lines 96-97 / 175-176: finally: q.put(None)
PutSentinel ==
    /\ wpc = "finally"
    /\ ~QueueFull(q)
    /\ q' = Append(q, None)
    /\ wpc' = "exiting"
    /\ UNCHANGED <<inputs, consumerVars, result_container, posted, jobCtl,
                   frame_num, splitVars, grpVars>>

\* the thread ends with the sentinel never put (the put itself raising): the
\* case line 110 / 188 looks for
PutFails ==
    /\ wpc = "finally"
    /\ wpc' = "dead"
    /\ UNCHANGED <<inputs, consumerVars, result_container, queueVars, jobCtl,
                   frame_num, splitVars, grpVars>>

\* the thread function has returned: t.is_alive() is False from here on
ThreadExit ==
    /\ wpc = "exiting"
    /\ wpc' = "dead"
    /\ UNCHANGED <<inputs, consumerVars, result_container, queueVars, jobCtl,
                   frame_num, splitVars, grpVars>>

-----------------------------------------------------------------------------
(* main.py: event_generator, the consumer.  A yielded record stands for the *)
(* line json.dumps(record) + "\n" of the stream.                            *)

\* a mutant of ErrorRecord: the message is dropped
ErrorRecordBlank(m) == [type |-> "error", message |-> ""]

\* lines 119-120, 126, 141 / 195, 204: {"type": "error", "message": ...}
ErrorRecord(m) == [type |-> "error", message |-> m]

\* lines 129-130: the scenes numbered from 1
FormattedScenes(data) ==
    [k \in 1..Len(data) |->
        [start |-> data[k][1], end |-> data[k][2], scene_number |-> k]]

\* a mutant of TerminalRecords: an empty container yields no record
TerminalRecordsSilent(k, rc) ==
    IF "error" \in rc.keys THEN <<ErrorRecord(rc.error)>>
    ELSE IF "data" \notin rc.keys THEN <<>>
    ELSE <<[type |-> "complete", payload |-> rc.data]>>

\* lines 118-141 (analyze) and 194-204 (split): the records yielded after the
\* join.  In split the missing 'data' key raises KeyError, which the outer
\* except turns into an error record carrying str(KeyError('data')).
TerminalRecords(k, rc) ==
    IF "error" \in rc.keys THEN <<ErrorRecord(rc.error)>>
    ELSE IF k = "analyze"
    THEN IF "data" \notin rc.keys
         THEN <<ErrorRecord("Internal Error: No data produced.")>>
         ELSE <<[type |-> "complete", video_path |-> <<video.name, video.ext>>,
                 scenes |-> FormattedScenes(rc.data)]>>
    ELSE IF "data" \notin rc.keys
         THEN <<ErrorRecord("'data'")>>
         ELSE <<[type |-> "complete", files |-> rc.data,
                 output_dir |-> video.name]>>

\* lines 99-100 / 178-179: t = threading.Thread(...); t.start()
StartThread ==
    /\ cpc = "init"
    /\ cpc' = "poll"
    /\ wpc' = "job"
    /\ UNCHANGED <<inputs, out, exitedBy, result_container, queueVars, jobCtl,
                   frame_num, splitVars, grpVars>>

\* lines 105-108 / 183-186: q.get returns an item
GetItem ==
    /\ cpc = "poll" /\ q # <<>>
    /\ q' = Tail(q)
    /\ IF Head(q) = None
       THEN cpc' = "join" /\ exitedBy' = "sentinel" /\ out' = out
       ELSE cpc' = "poll" /\ exitedBy' = exitedBy /\ out' = Append(out, Head(q))
    /\ UNCHANGED <<inputs, workerVars, posted, jobCtl, frame_num, splitVars,
                   grpVars>>

\* lines 105, 109 / 183, 187: q.get(timeout=0.1) raises queue.Empty
GetTimeout ==
    /\ cpc = "poll" /\ q = <<>>
    /\ cpc' = "empty"
    /\ UNCHANGED <<inputs, out, exitedBy, workerVars, queueVars, jobCtl,
                   frame_num, splitVars, grpVars>>

\* a mutant of IsAlive: the thread is always taken to be running
IsAliveAlways(w) == TRUE

\* line 110 / 188: t.is_alive(), w the position of the worker thread
IsAlive(w) == w # "dead"

\* lines 110-113 / 188-190: if not t.is_alive(): break, else continue
CheckAlive ==
    /\ cpc = "empty"
    /\ IF ~IsAlive(wpc)
       THEN cpc' = "join" /\ exitedBy' = "liveness"
       ELSE cpc' = "poll" /\ exitedBy' = exitedBy
    /\ UNCHANGED <<inputs, out, workerVars, queueVars, jobCtl, frame_num,
                   splitVars, grpVars>>

\* a mutant of JoinReturns: the join does not wait
JoinReturnsAtOnce(w) == TRUE

\* line 115 / 192: t.join() returns once the thread, at position w, has
\* ended
JoinReturns(w) == w = "dead"

\* line 115 / 192: t.join()
Join ==
    /\ cpc = "join" /\ JoinReturns(wpc)
    /\ cpc' = "result"
    /\ UNCHANGED <<inputs, out, exitedBy, workerVars, queueVars, jobCtl,
                   frame_num, splitVars, grpVars>>

\* lines 118-141 / 194-204: the terminal record
YieldTerminal ==
    /\ cpc = "result"
    /\ out' = out \o TerminalRecords(kind, result_container)
    /\ cpc' = "end"
    /\ UNCHANGED <<inputs, exitedBy, workerVars, queueVars, jobCtl, frame_num,
                   splitVars, grpVars>>

-----------------------------------------------------------------------------
(* video_grouper.py: group_scenes *)

\* line 85
BATCH_SIZE == 9

\* a mutant of NumBatches: the quotient is rounded down
NumBatchesFloor(n) == n \div BATCH_SIZE

\* line 88: math.ceil(len(processed_scenes) / BATCH_SIZE)
NumBatches(n) == (n + BATCH_SIZE - 1) \div BATCH_SIZE

\* lines 91-92: the 0-based bounds of batch i
BatchStart(i) == i * BATCH_SIZE
BatchEnd(i, n) == Min((i + 1) * BATCH_SIZE, n)

(* The response text is a sequence of tokens: "[", "]", ",", integer       *)
(* literals, the literals "true" and "str" (a quoted JSON string), and     *)
(* words of prose.                                                         *)

IntTokens == {"-30", "0", "1", "2", "3", "4", "5", "6", "7", "8", "9", "10"}

IntOf(tok) ==
    CASE tok = "-30" -> -30
      [] tok = "0" -> 0   [] tok = "1" -> 1   [] tok = "2" -> 2
      [] tok = "3" -> 3   [] tok = "4" -> 4   [] tok = "5" -> 5
      [] tok = "6" -> 6   [] tok = "7" -> 7   [] tok = "8" -> 8
      [] tok = "9" -> 9   [] tok = "10" -> 10

Positions(content, tok) == {k \in 1..Len(content) : content[k] = tok}

SetMin(S) == CHOOSE x \in S : \A y \in S : x <= y
SetMax(S) == CHOOSE x \in S : \A y \in S : x >= y

\* line 144: re.search(r'\[.*\]', content, re.DOTALL): from the first "[" to
\* the last "]" after it (the quantifier is greedy)
ReSearch(content) ==
    LET opens == Positions(content, "[")
    IN  IF opens = {} THEN [found |-> FALSE, str |-> <<>>]
        ELSE LET a == SetMin(opens)
                 closes == {k \in Positions(content, "]") : k > a}
             IN  IF closes = {} THEN [found |-> FALSE, str |-> <<>>]
                 ELSE [found |-> TRUE,
                       str |-> SubSeq(content, a, SetMax(closes))]

ParseFail == [ok |-> FALSE, val |-> [t |-> "none", v |-> 0], next |-> 0]

\* json.loads, by recursive descent: the value that starts at token i.
\* Values are tagged: list (v a sequence), int, bool, str.
RECURSIVE ParseValue(_, _), ParseItems(_, _, _)
ParseValue(toks, i) ==
    IF i > Len(toks) THEN ParseFail
    ELSE IF toks[i] = "["
    THEN IF i + 1 <= Len(toks) /\ toks[i + 1] = "]"
         THEN [ok |-> TRUE, val |-> [t |-> "list", v |-> <<>>], next |-> i + 2]
         ELSE ParseItems(toks, i + 1, <<>>)
    ELSE IF toks[i] \in IntTokens
    THEN [ok |-> TRUE, val |-> [t |-> "int", v |-> IntOf(toks[i])], next |-> i + 1]
    ELSE IF toks[i] = "true"
    THEN [ok |-> TRUE, val |-> [t |-> "bool", v |-> 1], next |-> i + 1]
    ELSE IF toks[i] = "str"
    THEN [ok |-> TRUE, val |-> [t |-> "str", v |-> 0], next |-> i + 1]
    ELSE ParseFail

\* the items of a list from token i on, acc the items read so far
ParseItems(toks, i, acc) ==
    LET item == ParseValue(toks, i)
    IN  IF ~item.ok \/ item.next > Len(toks) THEN ParseFail
        ELSE IF toks[item.next] = "]"
        THEN [ok |-> TRUE, val |-> [t |-> "list", v |-> Append(acc, item.val)],
              next |-> item.next + 1]
        ELSE IF toks[item.next] = ","
        THEN ParseItems(toks, item.next + 1, Append(acc, item.val))
        ELSE ParseFail

\* line 148: json.loads(json_str): one value and nothing after it
JsonLoads(toks) ==
    LET r == ParseValue(toks, 1)
    IN  IF r.ok /\ r.next = Len(toks) + 1
        THEN [ok |-> TRUE, val |-> r.val]
        ELSE [ok |-> FALSE, val |-> ParseFail.val]

\* line 155: isinstance(local_idx, int); a bool is an int in Python
IsPyInt(e) == e.t \in {"int", "bool"}

\* "for local_idx in group" raises TypeError unless group can be iterated
IsIterable(g) == g.t \in {"list", "str"}

\* the entries "for local_idx in group" visits; the characters of a string
\* are strings
Entries(g) == IF g.t = "list" THEN g.v ELSE <<>>

\* a mutant of GlobalIdx: the local index is taken as 0-based
GlobalIdxZeroBased(batch_start, local_idx) == batch_start + local_idx

\* line 157
GlobalIdx(batch_start, local_idx) == batch_start + (local_idx - 1)

\* lines 154-159 for the entries k.. of one group: ps is processed_scenes;
\* an index below -len(ps) raises IndexError (err), a negative index
\* above it counts from the end of the list
RECURSIVE AssignGroup(_, _, _, _, _)
AssignGroup(ps, entries, k, gid, batch_start) ==
    IF k > Len(entries) THEN [ps |-> ps, err |-> FALSE]
    ELSE LET e == entries[k]
         IN  IF ~IsPyInt(e) THEN AssignGroup(ps, entries, k + 1, gid, batch_start)
             ELSE LET g == GlobalIdx(batch_start, e.v)
                  IN  IF ~(g < Len(ps))
                      THEN AssignGroup(ps, entries, k + 1, gid, batch_start)
                      ELSE IF g < -Len(ps) THEN [ps |-> ps, err |-> TRUE]
                      ELSE LET at == IF g >= 0 THEN g + 1 ELSE Len(ps) + g + 1
                           IN  AssignGroup([ps EXCEPT ![at].group_id = gid],
                                           entries, k + 1, gid, batch_start)

\* the end of one iteration of the batch loop, with what it did
EndBatch(outcome, queried, parsed) ==
    /\ glog' = Append(glog, [batch |-> batch_i, outcome |-> outcome,
                             queried |-> queried, labels |-> thumbnails,
                             parsed |-> parsed])
    /\ batch_i' = batch_i + 1
    /\ gpc' = "head"

\* lines 80-88
GroupEnter ==
    /\ kind = "group" /\ gpc = "call"
    /\ IF scenes = <<>>
       THEN gpc' = "returned" /\ processed_scenes' = <<>>
       ELSE /\ gpc' = "head"
            /\ processed_scenes' =
                  [k \in 1..Len(scenes) |->
                      [start |-> scenes[k].start, end |-> scenes[k].end,
                       scene_number |-> scenes[k].scene_number, group_id |-> 0]]
    /\ group_id_offset' = 0
    /\ batch_i' = 0
    /\ UNCHANGED <<inputs, consumerVars, workerVars, queueVars, jobCtl,
                   frame_num, splitVars, thumbnails, thumb_bytes,
                   thumb_calls, queries, responses, groups,
                   group_k, glog>>

\* line 90 and line 167: the next batch, or return processed_scenes
BatchHead ==
    /\ kind = "group" /\ gpc = "head"
    /\ IF batch_i < NumBatches(Len(processed_scenes))
       THEN gpc' = "thumbs"
       ELSE gpc' = "returned"
    /\ UNCHANGED <<inputs, consumerVars, workerVars, queueVars, jobCtl,
                   frame_num, splitVars, batch_i, processed_scenes,
                   group_id_offset, thumbnails, thumb_bytes, thumb_calls,
                   queries, responses,
                   groups, group_k,
                   glog>>

\* what generate_thumbnail does for one scene: "raise" (non-zero exit, or the
\* file is missing), or the bytes returned: a "jpeg", or "empty" output
ThumbOutcomes == {"raise", "jpeg", "empty"}

\* what the ffmpeg process of generate_thumbnail ends with: its exit status
\* and what it wrote to its standard output
ProcessRuns ==
    {[returncode |-> 0, output |-> "jpeg"],
     [returncode |-> 0, output |-> "empty"],
     [returncode |-> 1, output |-> "empty"]}

GoodRun == [returncode |-> 0, output |-> "jpeg"]

\* video_processor.py lines 191-223, generate_thumbnail: raises when the
\* video file is missing and when the process exits non-zero, and returns
\* the output of the process otherwise
GenerateThumbnail(exists, run) ==
    IF ~exists THEN [ran |-> FALSE, raised |-> TRUE, bytes |-> "none"]
    ELSE IF run.returncode # 0
    THEN [ran |-> TRUE, raised |-> TRUE, bytes |-> "none"]
    ELSE [ran |-> TRUE, raised |-> FALSE, bytes |-> run.output]

\* the process runs of the scenes lo .. hi-1 of a batch: all good, all
\* failing, or exactly one scene whose run fails or writes nothing
ThumbPatterns(lo, hi) ==
    {[x \in lo..(hi - 1) |-> GoodRun]}
    \cup {[x \in lo..(hi - 1) |-> r] : r \in {u \in ProcessRuns : u.returncode # 0}}
    \cup {[x \in lo..(hi - 1) |-> IF x = p THEN r ELSE GoodRun] :
             p \in lo..(hi - 1), r \in ProcessRuns \ {GoodRun}}

\* lines 97-113: the thumbnails of the batch; a scene whose thumbnail raised
\* is left out of the list
GenThumbs ==
    /\ kind = "group" /\ gpc = "thumbs"
    /\ LET lo == BatchStart(batch_i)
           hi == BatchEnd(batch_i, Len(processed_scenes))
       IN  \E pat \in ThumbPatterns(lo, hi) :
              LET res  == [x \in lo..(hi - 1) |->
                              GenerateThumbnail(video.opens, pat[x])]
                  kept == SelectSeq([k \in 1..(hi - lo) |-> lo + k - 1],
                                    LAMBDA x : ~res[x].raised)
              IN  /\ thumbnails' = kept
                  /\ thumb_bytes' = [k \in 1..Len(kept) |-> res[kept[k]].bytes]
                  /\ thumb_calls' =
                        [k \in 1..(hi - lo) |->
                            [idx |-> lo + k - 1,
                             ran |-> res[lo + k - 1].ran,
                             returncode |-> pat[lo + k - 1].returncode,
                             output |-> pat[lo + k - 1].output,
                             raised |-> res[lo + k - 1].raised,
                             bytes |-> res[lo + k - 1].bytes]]
                  /\ IF kept = <<>>
                     THEN /\ glog' = Append(glog,
                                 [batch |-> batch_i, outcome |-> "no_thumbnails",
                                  queried |-> FALSE, labels |-> <<>>,
                                  parsed |-> <<>>])
                          /\ batch_i' = batch_i + 1
                          /\ gpc' = "head"
                     ELSE /\ gpc' = "stitch"
                          /\ UNCHANGED <<glog, batch_i>>
    /\ UNCHANGED <<inputs, consumerVars, workerVars, queueVars, jobCtl,
                   frame_num, splitVars, processed_scenes, group_id_offset,
                   queries, responses, groups, group_k>>

\* _create_image_grid, lines 48-69: the cells of the grid, in the order of
\* image_paths; the cell of images[idx] is labelled str(idx + 1).  A path
\* stands for the scene index in its file name scene_{idx}.jpg.
GridCells(image_paths) ==
    [k \in 1..Len(image_paths) |-> [label |-> k, shows |-> image_paths[k]]]

\* lines 115-119 and _create_image_grid: Image.open of a file that holds no
\* image raises, and so may canvas.save; nothing around the call catches it
Stitch ==
    /\ kind = "group" /\ gpc = "stitch"
    /\ \E save_ok \in BOOLEAN :
          IF save_ok /\ \A k \in 1..Len(thumb_bytes) : thumb_bytes[k] = "jpeg"
          THEN gpc' = "query"
          ELSE gpc' = "raised"
    /\ UNCHANGED <<inputs, consumerVars, workerVars, queueVars, jobCtl,
                   frame_num, splitVars, batch_i, processed_scenes,
                   group_id_offset, thumbnails, thumb_bytes, thumb_calls,
                   queries, responses,
                   groups, group_k,
                   glog>>

\* the texts the vision model may answer with
Responses ==
    { <<"[", "[", "1", ",", "2", "]", ",", "[", "3", "]", "]">>,
      <<"[", "[", "1", ",", "2", ",", "3", "]", ",", "[", "4", ",", "5", ",",
        "6", "]", ",", "[", "7", ",", "8", ",", "9", "]", "]">>,
      <<"[", "[", "1", "]", "]">>,
      <<"[", "[", "2", ",", "1", "]", ",", "[", "1", "]", "]">>,
      <<"I", "cannot", "group", "these">>,
      <<"[", "[", "1", ",", "2">>,
      <<"[", "[", "1", "]", ",", "2", "]">>,
      <<"[", "[", "0", "]", "]">>,
      <<"[", "[", "10", "]", "]">>,
      <<"[", "[", "-30", ",", "1", "]", "]">>,
      <<"[", "[", "1", ",", "str", ",", "true", "]", "]">>,
      <<"Groups", ":", "[", "[", "1", "]", ",", "[", "2", "]", "]", "done">>,
      <<"see", "[", "1", "]", ":", "[", "[", "1", ",", "2", "]", "]">>,
      <<"[", "[", "1", "]", "]", "(", "see", "[", "note", "]", ")">> }

\* lines 122-148 and 161-165: the query and the decoding of its answer
Query ==
    /\ kind = "group" /\ gpc = "query"
    /\ queries' = Append(queries, batch_i)
    /\ \/ \* ollama.chat raises: caught on line 164
          /\ responses' = Append(responses, [raised |-> TRUE, content |-> <<>>])
          /\ EndBatch("query_raised", TRUE, <<>>)
          /\ UNCHANGED <<groups, group_k>>
       \/ \E content \in Responses :
             LET m == ReSearch(content)
                 j == JsonLoads(m.str)
             IN  /\ responses' = Append(responses,
                                       [raised |-> FALSE, content |-> content])
                 /\ IF ~m.found
                    THEN /\ EndBatch("no_match", TRUE, <<>>)
                         /\ UNCHANGED <<groups, group_k>>
                    ELSE IF ~j.ok
                    THEN /\ EndBatch("json_error", TRUE, <<>>)
                         /\ UNCHANGED <<groups, group_k>>
                    ELSE /\ groups' = j.val.v
                         /\ group_k' = 0
                         /\ gpc' = "groups"
                         /\ UNCHANGED <<glog, batch_i>>
    /\ UNCHANGED <<inputs, consumerVars, workerVars, queueVars, jobCtl,
                   frame_num, splitVars, processed_scenes, group_id_offset,
                   thumbnails, thumb_bytes, thumb_calls>>

\* a mutant of CallerView: processed_scenes holds the caller's own dicts
CallerViewAliased(sc, ps) == ps

\* line 86: processed_scenes = [s.copy() for s in scenes] holds new dicts,
\* so what the caller's list sc shows after a write to ps is what it showed
\* before
CallerView(sc, ps) == sc

\* lines 150-159: one iteration of "for group in groups"
GroupStep ==
    /\ kind = "group" /\ gpc = "groups"
    /\ group_k < Len(groups)
    /\ group_id_offset' = group_id_offset + 1
    /\ LET group == groups[group_k + 1]
           r == AssignGroup(processed_scenes, Entries(group), 1,
                            group_id_offset', BatchStart(batch_i))
       IN  IF ~IsIterable(group)
           THEN /\ EndBatch("type_error", TRUE, groups)
                /\ UNCHANGED <<processed_scenes, group_k, scenes>>
           ELSE /\ processed_scenes' = r.ps
                /\ scenes' = CallerView(scenes, r.ps)
                /\ IF r.err
                   THEN EndBatch("index_error", TRUE, groups) /\ group_k' = group_k
                   ELSE /\ group_k' = group_k + 1
                        /\ UNCHANGED <<glog, batch_i, gpc>>
    /\ UNCHANGED <<kind, callback, video, consumerVars, workerVars,
                   queueVars, jobCtl, frame_num, splitVars, thumbnails,
                   thumb_bytes, thumb_calls, queries, responses, groups>>

\* the loop over the groups is exhausted: the batch is done
GroupsEnd ==
    /\ kind = "group" /\ gpc = "groups"
    /\ group_k = Len(groups)
    /\ EndBatch("ok", TRUE, groups)
    /\ UNCHANGED <<inputs, consumerVars, workerVars, queueVars, jobCtl,
                   frame_num, splitVars, processed_scenes, group_id_offset,
                   thumbnails, thumb_bytes, thumb_calls, queries, responses,
                   groups, group_k>>

-----------------------------------------------------------------------------
(* Initial states and specifications *)

GroupIdle ==
    /\ gpc = "off" /\ batch_i = 0 /\ processed_scenes = <<>>
    /\ group_id_offset = 0 /\ thumbnails = <<>> /\ thumb_bytes = <<>>
    /\ thumb_calls = <<>> /\ queries = <<>> /\ responses = <<>>
    /\ groups = <<>> /\ group_k = 0 /\ glog = <<>>

JobFresh ==
    /\ jpc = "open" /\ exc = NoExc /\ frame_num = 0
    /\ frame_duration = 0 /\ sp_i = 0 /\ cmds = <<>> /\ rcodes = <<>>
    /\ created_files = <<>>

\* the videos given to analyze: metadata frame count, frames actually read,
\* and the frames at which the detector records a cut
AnalyzeVideos ==
    {[name |-> "clip", ext |-> ".avi", opens |-> FALSE, fps |-> 25, total_frames |-> 0,
      frames |-> 0, cuts |-> {}],
     \* forty seconds at one frame per second, cuts at 10 s and 25 s
     [name |-> "clip", ext |-> ".avi", opens |-> TRUE, fps |-> 1, total_frames |-> 40,
      frames |-> 40, cuts |-> {10, 25}]}
    \cup
    [name : {"clip"}, ext : {".avi"}, opens : {TRUE}, fps : {25},
     total_frames : {0, 45, MaxFrames}, frames : {0, 29, MaxFrames},
     cuts : {{}, {20}, {20, 40}}]

SplitVideo(o, f) ==
    [name |-> "clip", ext |-> ".avi", opens |-> o, fps |-> f, total_frames |-> 0,
     frames |-> 0, cuts |-> {}]

\* the scene list of a split request made from a detection: n scenes of ten
\* seconds each
TenSecondScenes(n) == [k \in 1..n |-> <<(k - 1) * 10000000, k * 10000000>>]

Init ==
    /\ kind \in {"analyze", "split"}
    /\ callback = TRUE
    /\ IF kind = "analyze"
       THEN video \in AnalyzeVideos /\ scenes = <<>>
       ELSE /\ video = SplitVideo(TRUE, 25)
            /\ \E n \in 0..MaxSplitScenes : scenes = TenSecondScenes(n)
    /\ cpc = "init" /\ wpc = "idle" /\ q = <<>> /\ out = <<>>
    /\ result_container = EmptyContainer /\ posted = <<>> /\ exitedBy = "none"
    /\ JobFresh
    /\ GroupIdle

Next ==
    \/ StartThread \/ GetItem \/ GetTimeout \/ CheckAlive \/ Join
    \/ YieldTerminal
    \/ StoreData \/ StoreError \/ Uncaught \/ PutSentinel \/ PutFails
    \/ ThreadExit
    \/ DetectOpen \/ DetectFrame \/ DetectEOF \/ DetectFinal \/ DetectReturn
    \/ DetectRaise
    \/ SplitOpen \/ SplitScene \/ SplitReturn \/ SplitRaise

Spec == Init /\ [][Next]_vars

\* the bridge with its scheduling: both threads keep running
FairSpec == Spec /\ WF_vars(Next)

(* The bridge with a client that may go away.  The response stops        *)
(* iterating event_generator: the generator is closed where it stands and  *)
(* runs no further line; nothing in it reaches the worker thread.          *)

\* the client disconnects: event_generator is closed for good
Disconnect ==
    /\ cpc \in {"poll", "empty", "join", "result"}
    /\ cpc' = "closed"
    /\ UNCHANGED <<inputs, out, exitedBy, workerVars, queueVars, jobCtl,
                   frame_num, splitVars, grpVars>>

\* the steps of the worker thread: the job, then run_detection / run_split
WorkerNext ==
    \/ DetectOpen \/ DetectFrame \/ DetectEOF \/ DetectFinal \/ DetectReturn
    \/ DetectRaise
    \/ SplitOpen \/ SplitScene \/ SplitReturn \/ SplitRaise
    \/ StoreData \/ StoreError \/ Uncaught \/ PutSentinel \/ ThreadExit

\* the steps of event_generator
ConsumerNext ==
    \/ StartThread \/ GetItem \/ GetTimeout \/ CheckAlive \/ Join
    \/ YieldTerminal

NextDisconnect == ConsumerNext \/ Disconnect \/ WorkerNext

\* the worker is a thread of its own and keeps being scheduled; nothing is
\* assumed of the consumer, which may poll slowly or stop
SpecDisconnect ==
    Init /\ [][NextDisconnect]_vars /\ WF_vars(WorkerNext)

(* split_video called directly, without a callback *)

\* frame rates: not positive, ordinary, and above 1000 frames per second
FpsChoices == {0, 25, 50, 1000, 2000}

\* scene bounds in microseconds
SceneChoices ==
    {<<0, 10000000>>, <<400, 10000400>>, <<10000000, 25000000>>,
     <<10000400, 25000000>>, <<25000000, 40000000>>}

RECURSIVE SeqsUpTo(_, _)
SeqsUpTo(S, n) ==
    IF n = 0 THEN {<<>>}
    ELSE LET shorter == SeqsUpTo(S, n - 1)
         IN  shorter \cup {Append(t, x) : t \in shorter, x \in S}

InitSplit ==
    /\ kind = "split"
    /\ callback = FALSE
    /\ \E o \in BOOLEAN, f \in FpsChoices : video = SplitVideo(o, f)
    /\ scenes \in SeqsUpTo(SceneChoices, MaxSplitScenes)
    /\ cpc = "off" /\ wpc = "job" /\ q = <<>> /\ out = <<>>
    /\ result_container = EmptyContainer /\ posted = <<>> /\ exitedBy = "none"
    /\ JobFresh
    /\ GroupIdle

NextSplit == SplitOpen \/ SplitScene \/ SplitReturn \/ SplitRaise

SpecSplit == InitSplit /\ [][NextSplit]_vars

(* group_scenes called on a list of n scenes *)

\* longest scene list given to group_scenes
MaxScenes == 10

\* n contiguous scenes of ten seconds, numbered from 1
SceneDicts(n) ==
    [k \in 1..n |-> [start |-> (k - 1) * 10000000, end |-> k * 10000000,
                     scene_number |-> k]]

InitGroup ==
    /\ kind = "group"
    /\ callback = FALSE
    /\ \E o \in BOOLEAN : video = SplitVideo(o, 25)
    /\ \E n \in 0..MaxScenes : scenes = SceneDicts(n)
    /\ cpc = "off" /\ wpc = "off" /\ q = <<>> /\ out = <<>>
    /\ result_container = EmptyContainer /\ posted = <<>> /\ exitedBy = "none"
    /\ JobFresh
    /\ gpc = "call" /\ batch_i = 0 /\ processed_scenes = <<>>
    /\ group_id_offset = 0 /\ thumbnails = <<>> /\ thumb_bytes = <<>>
    /\ thumb_calls = <<>> /\ queries = <<>> /\ responses = <<>>
    /\ groups = <<>> /\ group_k = 0 /\ glog = <<>>

NextGroup ==
    GroupEnter \/ BatchHead \/ GenThumbs \/ Stitch \/ Query \/ GroupStep
    \/ GroupsEnd

SpecGroup == InitGroup /\ [][NextGroup]_vars

(* Several requests served at once.  Each call of analyze_video or        *)
(* split_video makes its own event_generator, whose q, result_container    *)
(* and t are local variables of that call.  In this specification the      *)
(* variables of the bridge hold one value per job: cpc[j], wpc[j], q[j],   *)
(* out[j], result_container[j], posted[j], exitedBy[j], jpc[j], kind[j].   *)
(* The job of request j works on j scenes, and a record carries in "by"    *)
(* the job whose worker made it (history).                                 *)

\* the number of requests served at once
NumJobs == 2

Jobs == 1..NumJobs

\* a mutant of OwnQueue: one queue shared by all requests
SharedQueue(j) == 1

\* lines 80-81 / 157-158: q = queue.Queue() is made inside event_generator,
\* so the callback, the worker and the relay loop of job j all hold job j's
\* queue
OwnQueue(j) == j

\* what the job of request j returns: j scenes, or the j files made of them
JobsResult(j) ==
    IF kind[j] = "analyze" THEN TenSecondScenes(j)
    ELSE [k \in 1..j |-> OutputFile(k - 1)]

\* lines 99-100 / 178-179: t = threading.Thread(...); t.start()
JobsStartThread(j) ==
    /\ cpc[j] = "init"
    /\ cpc' = [cpc EXCEPT ![j] = "poll"]
    /\ wpc' = [wpc EXCEPT ![j] = "job"]
    /\ UNCHANGED <<kind, callback, video, scenes, out, exitedBy,
                   result_container, queueVars, jobCtl, frame_num, splitVars,
                   grpVars>>

\* lines 83-84 / 160-161: the job calls progress_callback: q.put of a
\* record.  Of the callbacks of a job the one with percent 100 is kept: the
\* final callback of a detection, the last scene of a split.
JobsCallback(j) ==
    /\ wpc[j] = "job" /\ jpc[j] = "open"
    /\ posted[j] = <<>>
    /\ LET item == [type |-> "progress", value |-> 100, by |-> j]
       IN  /\ q' = [q EXCEPT ![OwnQueue(j)] = Append(@, item)]
           /\ posted' = [posted EXCEPT ![j] = Append(@, item)]
    /\ UNCHANGED <<kind, callback, video, scenes, consumerVars, workerVars,
                   jobCtl, frame_num, splitVars, grpVars>>

\* lines 91-93 / 165-172: the job returns and its result is stored
JobsReturn(j) ==
    /\ wpc[j] = "job" /\ jpc[j] = "open"
    /\ jpc' = [jpc EXCEPT ![j] = "returned"]
    /\ result_container' =
          [result_container EXCEPT ![j] =
              [@ EXCEPT !.keys = @ \cup {"data"}, !.data = JobsResult(j)]]
    /\ wpc' = [wpc EXCEPT ![j] = "finally"]
    /\ UNCHANGED <<kind, callback, video, scenes, consumerVars, queueVars, exc,
                   frame_num, splitVars, grpVars>>

\* lines 94-95 / 173-174: the job raises and str(ex) is stored
JobsRaise(j) ==
    /\ wpc[j] = "job" /\ jpc[j] = "open"
    /\ jpc' = [jpc EXCEPT ![j] = "raised"]
    /\ result_container' =
          [result_container EXCEPT ![j] =
              [@ EXCEPT !.keys = @ \cup {"error"}, !.error = <<"job failed", j>>]]
    /\ wpc' = [wpc EXCEPT ![j] = "finally"]
    /\ UNCHANGED <<kind, callback, video, scenes, consumerVars, queueVars, exc,
                   frame_num, splitVars, grpVars>>

\* lines 96-97 / 175-176: finally: q.put(None)
JobsPutSentinel(j) ==
    /\ wpc[j] = "finally"
    /\ q' = [q EXCEPT ![OwnQueue(j)] = Append(@, None)]
    /\ wpc' = [wpc EXCEPT ![j] = "exiting"]
    /\ UNCHANGED <<kind, callback, video, scenes, consumerVars,
                   result_container, posted, jobCtl, frame_num, splitVars,
                   grpVars>>

\* the thread function of job j has returned
JobsThreadExit(j) ==
    /\ wpc[j] = "exiting"
    /\ wpc' = [wpc EXCEPT ![j] = "dead"]
    /\ UNCHANGED <<kind, callback, video, scenes, consumerVars,
                   result_container, queueVars, jobCtl, frame_num, splitVars,
                   grpVars>>

\* lines 105-108 / 183-186: q.get returns an item
JobsGetItem(j) ==
    /\ cpc[j] = "poll" /\ q[OwnQueue(j)] # <<>>
    /\ q' = [q EXCEPT ![OwnQueue(j)] = Tail(@)]
    /\ LET item == Head(q[OwnQueue(j)])
       IN  IF item = None
           THEN /\ cpc' = [cpc EXCEPT ![j] = "join"]
                /\ exitedBy' = [exitedBy EXCEPT ![j] = "sentinel"]
                /\ out' = out
           ELSE /\ out' = [out EXCEPT ![j] = Append(@, item)]
                /\ UNCHANGED <<cpc, exitedBy>>
    /\ UNCHANGED <<kind, callback, video, scenes, workerVars, posted, jobCtl,
                   frame_num, splitVars, grpVars>>

\* lines 105, 109 / 183, 187: q.get(timeout=0.1) raises queue.Empty
JobsGetTimeout(j) ==
    /\ cpc[j] = "poll" /\ q[OwnQueue(j)] = <<>>
    /\ cpc' = [cpc EXCEPT ![j] = "empty"]
    /\ UNCHANGED <<kind, callback, video, scenes, out, exitedBy, workerVars,
                   queueVars, jobCtl, frame_num, splitVars, grpVars>>

\* lines 110-113 / 188-190: if not t.is_alive(): break, else continue
JobsCheckAlive(j) ==
    /\ cpc[j] = "empty"
    /\ IF ~IsAlive(wpc[j])
       THEN /\ cpc' = [cpc EXCEPT ![j] = "join"]
            /\ exitedBy' = [exitedBy EXCEPT ![j] = "liveness"]
       ELSE /\ cpc' = [cpc EXCEPT ![j] = "poll"]
            /\ exitedBy' = exitedBy
    /\ UNCHANGED <<kind, callback, video, scenes, out, workerVars, queueVars,
                   jobCtl, frame_num, splitVars, grpVars>>

\* line 115 / 192: t.join()
JobsJoin(j) ==
    /\ cpc[j] = "join" /\ JoinReturns(wpc[j])
    /\ cpc' = [cpc EXCEPT ![j] = "result"]
    /\ UNCHANGED <<kind, callback, video, scenes, out, exitedBy, workerVars,
                   queueVars, jobCtl, frame_num, splitVars, grpVars>>

\* lines 118-141 / 194-204: the terminal record, from the container of the
\* same event_generator
JobsYieldTerminal(j) ==
    /\ cpc[j] = "result"
    /\ out' = [out EXCEPT ![j] = @ \o TerminalRecords(kind[j], result_container[j])]
    /\ cpc' = [cpc EXCEPT ![j] = "end"]
    /\ UNCHANGED <<kind, callback, video, scenes, exitedBy, workerVars,
                   queueVars, jobCtl, frame_num, splitVars, grpVars>>

\* the requests served at once: all of them analyze requests, or analyze
\* and split requests in turn
JobKinds ==
    {[j \in Jobs |-> "analyze"],
     [j \in Jobs |-> IF j % 2 = 1 THEN "split" ELSE "analyze"]}

InitJobs ==
    /\ kind \in JobKinds
    /\ callback = TRUE
    /\ video = SplitVideo(TRUE, 25)
    /\ scenes = <<>>
    /\ cpc = [j \in Jobs |-> "init"]
    /\ wpc = [j \in Jobs |-> "idle"]
    /\ q = [j \in Jobs |-> <<>>]
    /\ out = [j \in Jobs |-> <<>>]
    /\ result_container = [j \in Jobs |-> EmptyContainer]
    /\ posted = [j \in Jobs |-> <<>>]
    /\ exitedBy = [j \in Jobs |-> "none"]
    /\ jpc = [j \in Jobs |-> "open"]
    /\ exc = NoExc /\ frame_num = 0
    /\ frame_duration = 0 /\ sp_i = 0 /\ cmds = <<>> /\ rcodes = <<>>
    /\ created_files = <<>>
    /\ GroupIdle

NextJobs ==
    \E j \in Jobs :
       \/ JobsStartThread(j) \/ JobsCallback(j) \/ JobsReturn(j)
       \/ JobsRaise(j) \/ JobsPutSentinel(j) \/ JobsThreadExit(j)
       \/ JobsGetItem(j) \/ JobsGetTimeout(j) \/ JobsCheckAlive(j)
       \/ JobsJoin(j) \/ JobsYieldTerminal(j)

SpecJobs == InitJobs /\ [][NextJobs]_vars

-----------------------------------------------------------------------------
(* Claims about the bridge, checked under Spec *)

NonDecreasing(s) == \A a, b \in 1..Len(s) : a < b => s[a].value <= s[b].value

\* the sentinel was put: it is still queued, or the relay loop took it
SentinelPosted ==
    \/ exitedBy = "sentinel"
    \/ \E k \in 1..Len(q) : q[k] = None

\* the worker's job returned, its result was stored and the sentinel put
NormalTermination ==
    /\ jpc = "returned"
    /\ "data" \in result_container.keys
    /\ SentinelPosted

(* C1: the stream of a job holds exactly one terminal record (complete or  *)
(* error) once event_generator has ended, never more than one before, and  *)
(* the terminal record is the last record of the stream; this covers the   *)
(* worker returning, raising, and ending without its sentinel.             *)
C1_OneTerminalLast ==
    /\ Terminals(out) \subseteq {Len(out)}
    /\ cpc = "end" => Terminals(out) = {Len(out)} /\ Len(out) >= 1

\* a finished stream whose worker ended without sentinel and without result
C1_Witness ==
    /\ cpc = "end" /\ exitedBy = "liveness"
    /\ ~SentinelPosted
    /\ result_container.keys = {}
    /\ Last(out).type = "error"

(* C2: in a job that terminates normally, every progress record the worker *)
(* posted before its sentinel is relayed exactly once and in the order     *)
(* posted, whatever the interleaving of worker and consumer.               *)
C2_AllRelayedInOrder ==
    (cpc = "end" /\ NormalTermination) => ProgressOf(out) = posted

(* C3 as stated: the relayed percent values are non-decreasing, and a      *)
(* progress record with percent exactly 100 is relayed before the terminal *)
(* record of every job.                                                    *)
C3_Original ==
    /\ NonDecreasing(ProgressOf(out))
    /\ cpc = "end" =>
          \E k \in 1..(Len(out) - 1) : IsProgress(out[k]) /\ out[k].value = 100

(* C3 as amended: the relayed percent values are non-decreasing; a job     *)
(* that returns normally, a detection or a split of at least one scene,    *)
(* has posted a progress record with percent exactly 100 as its last       *)
(* progress record; when the relay loop ended on the sentinel that record  *)
(* is the one relayed just before the complete record.                     *)
C3_MonotoneAndFinal100 ==
    /\ NonDecreasing(ProgressOf(out))
    /\ (jpc = "returned" /\ (kind = "analyze" \/ Len(scenes) > 0))
       => /\ posted # <<>>
          /\ Last(posted).value = 100
    /\ ( /\ cpc = "end"
         /\ Last(out).type = "complete"
         /\ exitedBy = "sentinel"
         /\ (kind = "analyze" \/ Len(scenes) > 0) )
       => /\ Len(out) >= 2
          /\ IsProgress(out[Len(out) - 1])
          /\ out[Len(out) - 1].value = 100

\* a completed detection whose metadata frame count is below the frames
\* read: the periodic percent is capped, then the final 100 follows
C3_Witness ==
    /\ cpc = "end" /\ kind = "analyze" /\ exitedBy = "sentinel"
    /\ Last(out).type = "complete"
    /\ video.total_frames > 0 /\ video.total_frames < video.frames
    /\ Len(ProgressOf(out)) >= 3

(* C4: a split job in which the transcode of some scene exits non-zero     *)
(* ends with an error record, never with a complete record, and the output *)
(* path of a failed segment is never reported as a created file.           *)
C4_FailedTranscodeFailsJob ==
    (kind = "split" /\ cpc = "end" /\ \E k \in 1..Len(rcodes) : rcodes[k] # 0)
    => /\ Last(out).type = "error"
       /\ \A k \in 1..Len(rcodes) :
             rcodes[k] # 0 =>
                \A r \in 1..Len(out) :
                   out[r].type = "complete" =>
                      \A f \in 1..Len(out[r].files) :
                         out[r].files[f] # cmds[k].output_file

\* s is an initial segment of t
IsPrefix(s, t) == Len(s) <= Len(t) /\ SubSeq(t, 1, Len(s)) = s

\* the records of a finished stream of a job that raised: no complete
\* record, and one error record, the last
C12_EndsInOneError(s) ==
    /\ s # <<>>
    /\ Terminals(s) = {Len(s)}
    /\ Last(s).type = "error"

(* C12 as stated: if the worker job raises any exception, at any point,    *)
(* the stream ends with exactly one error record carrying that exception's *)
(* message, no complete record is sent, the relay does not crash, and the  *)
(* progress records already relayed stay on the stream before the error.   *)
C12_Original ==
    [][/\ IsPrefix(out, out')
       /\ (cpc' = "end" /\ jpc' = "raised")
          => /\ C12_EndsInOneError(out')
             /\ Last(out').message = exc'.msg]_vars

(* C12 as amended: if the worker job raises an exception derived from      *)
(* Exception, at any point, the stream ends with exactly one error record  *)
(* carrying str() of that exception, no complete record is sent, and the   *)
(* records already relayed stay on the stream before it.  An exception     *)
(* that "except Exception" does not catch also ends the stream with        *)
(* exactly one error record and no complete record, but its message is the *)
(* one the consumer makes up for a missing result, not the exception's.    *)
C12_RaiseEndsInError ==
    [][/\ IsPrefix(out, out')
       /\ (cpc' = "end" /\ jpc' = "raised")
          => /\ C12_EndsInOneError(out')
             /\ exc'.cls = "Exception" => Last(out').message = exc'.msg
             /\ exc'.cls # "Exception" =>
                   Last(out').message =
                      IF kind' = "analyze"
                      THEN "Internal Error: No data produced."
                      ELSE "'data'"]_vars

\* a finished detection that raised after progress was relayed
C12_Witness ==
    /\ cpc = "end" /\ jpc = "raised" /\ kind = "analyze"
    /\ exc.cls = "Exception"
    /\ Len(out) >= 2 /\ IsProgress(out[1])
    /\ Last(out) = [type |-> "error", message |-> exc.msg]

\* the worker thread has ended with no sentinel put and nothing stored
C13_SilentDeath ==
    /\ wpc = "dead"
    /\ ~SentinelPosted
    /\ result_container.keys = {}

(* C13: if the worker terminates without ever posting its sentinel and     *)
(* without recording a result, the relay loop of the consumer still        *)
(* terminates, it does not poll forever, and the stream ends with an error *)
(* record made up by the consumer; this holds for the analyze bridge and   *)
(* for the split bridge.                                                   *)
C13_RelayTerminates ==
    C13_SilentDeath ~>
       /\ cpc = "end"
       /\ exitedBy = "liveness"
       /\ C12_EndsInOneError(out)
       /\ Last(out).message = IF kind = "analyze"
                              THEN "Internal Error: No data produced."
                              ELSE "'data'"

\* a finished split stream whose worker died silently after progress
C13_Witness ==
    /\ cpc = "end" /\ kind = "split"
    /\ C13_SilentDeath
    /\ posted # <<>>
    /\ Last(out) = [type |-> "error", message |-> "'data'"]

\* the duration of the video, in microseconds: the frames it holds over its
\* frame rate
C14_Duration == (video.frames * 1000000) \div video.fps

\* the video of the scenario: 40 s, cuts at 10 s and 25 s
C14_ScenarioVideo ==
    /\ video.fps = 1 /\ video.frames = 40 /\ video.total_frames = 40
    /\ video.cuts = {10, 25}

C14_ScenarioScenes ==
    << [start |-> 0, end |-> 10000000, scene_number |-> 1],
       [start |-> 10000000, end |-> 25000000, scene_number |-> 2],
       [start |-> 25000000, end |-> 40000000, scene_number |-> 3] >>

(* C14: for every detection run that completes, the scenes of the complete *)
(* record are numbered 1..n in ascending order, each has start < end,      *)
(* consecutive scenes are contiguous, the first starts at 0 and the last   *)
(* ends at the video duration; with cuts at 10 s and 25 s in a 40 s video  *)
(* the result is (0,10,1), (10,25,2), (25,40,3).                           *)
C14_ScenesSpanVideo ==
    (cpc = "end" /\ kind = "analyze" /\ Last(out).type = "complete") =>
       LET sc == Last(out).scenes
       IN  /\ \A k \in 1..Len(sc) :
                /\ sc[k].scene_number = k
                /\ sc[k].start < sc[k].end
                /\ k < Len(sc) => sc[k].end = sc[k + 1].start
           /\ sc # <<>> => /\ sc[1].start = 0
                           /\ Last(sc).end = C14_Duration
           /\ C14_ScenarioVideo => sc = C14_ScenarioScenes

\* the cuts the detector has recorded once n frames were processed
C19_CutsFound(n) == Cardinality({c \in video.cuts : c < n})

\* the periodic progress events posted so far: one every 30 frames when the
\* frame count of the metadata is positive
C19_Periodic == IF video.total_frames > 0 THEN frame_num \div 30 ELSE 0

(* C19: every periodic detection progress event reports scenes_so_far =    *)
(* (cuts found so far) + 1, or 0 when no cut has been found yet, so the    *)
(* reported count never decreases within a job; the final percent=100      *)
(* event reports the final scene count, which equals the number of scenes  *)
(* in the job's complete record.                                           *)
C19_ScenesSoFar ==
    kind = "analyze" =>
       /\ Len(posted) >= C19_Periodic /\ Len(posted) <= C19_Periodic + 1
       /\ \A k \in 1..Len(posted) :
             /\ k <= C19_Periodic =>
                   posted[k].scenes =
                      IF C19_CutsFound(30 * k) = 0 THEN 0
                      ELSE C19_CutsFound(30 * k) + 1
             /\ k > C19_Periodic =>
                   /\ posted[k].value = 100
                   /\ posted[k].scenes =
                         IF C19_CutsFound(frame_num) = 0 THEN 0
                         ELSE C19_CutsFound(frame_num) + 1
             /\ k > 1 => posted[k - 1].scenes <= posted[k].scenes
       /\ "data" \in result_container.keys =>
             /\ Len(posted) = C19_Periodic + 1
             /\ Last(posted).scenes = Len(result_container.data)
       /\ (cpc = "end" /\ Last(out).type = "complete") =>
             /\ Len(Last(out).scenes) = Last(posted).scenes
             /\ \A k \in 1..Len(out) :
                   IsProgress(out[k]) => out[k].scenes <= Len(Last(out).scenes)

\* a completed detection with two cuts: the event at frame 30 reports two
\* scenes, the final event three, and the complete record holds three
C19_Witness ==
    /\ kind = "analyze" /\ cpc = "end" /\ Last(out).type = "complete"
    /\ Len(posted) = 3
    /\ posted[1].scenes = 2 /\ posted[3].scenes = 3 /\ posted[3].value = 100
    /\ Len(Last(out).scenes) = 3

\* the worker can still write result_container: it has not yet reached its
\* finally clause
C24_WorkerMayWrite == wpc \in {"idle", "job"}

(* C24: the consumer reads the job's result container, its data or error   *)
(* entry, only after the worker thread has terminated (after the join): in *)
(* no interleaving is the terminal record built while the worker can still *)
(* write the container, and the payload of a complete record is exactly    *)
(* the value the worker's job returned.                                    *)
C24_ReadAfterJoin ==
    /\ cpc \in {"result", "end"} => wpc = "dead" /\ ~C24_WorkerMayWrite
    /\ (cpc = "end" /\ Last(out).type = "complete") =>
          /\ jpc = "returned"
          /\ "data" \in result_container.keys
          /\ result_container.data = JobResult
          /\ kind = "split" => Last(out).files = created_files
          /\ kind = "analyze" =>
                /\ Len(Last(out).scenes) = Len(DetectResult)
                /\ \A k \in 1..Len(DetectResult) :
                      /\ Last(out).scenes[k].start = DetectResult[k][1]
                      /\ Last(out).scenes[k].end = DetectResult[k][2]
    /\ (cpc = "end" /\ "error" \in result_container.keys) =>
          Last(out) = [type |-> "error", message |-> result_container.error]

\* a finished split of three scenes whose relay loop ended on the sentinel:
\* the join waited for the thread, then the files were read
C24_Witness ==
    /\ cpc = "end" /\ kind = "split" /\ exitedBy = "sentinel"
    /\ Last(out).type = "complete"
    /\ Len(Last(out).files) = 3
    /\ Last(out).files = result_container.data

-----------------------------------------------------------------------------
(* Claims about a client that may go away, checked under SpecDisconnect *)

\* a step of the consumer, once the thread is started
C21_ConsumerStep == cpc # "init" /\ (cpc' # cpc \/ out' # out)

(* C21: a worker's post to the channel never blocks: whatever the consumer *)
(* does, polling slowly or stopping for good after a disconnection, a      *)
(* started worker runs its job to the end and posts its sentinel, and no   *)
(* step of the consumer interrupts or cancels it.                          *)
C21_WorkerRunsToEnd ==
    /\ [][C21_ConsumerStep =>
             /\ wpc' = wpc /\ jpc' = jpc /\ exc' = exc
             /\ posted' = posted /\ result_container' = result_container
             /\ frame_num' = frame_num /\ sp_i' = sp_i]_vars
    /\ [][posted' # posted => Len(q') = Len(q) + 1]_vars
    /\ (wpc = "job") ~>
          /\ wpc = "dead"
          /\ jpc \in {"returned", "raised"}
          /\ SentinelPosted

\* the client went away with a record still queued, and the worker went on
\* to the end of its job and put its sentinel
C21_Witness ==
    /\ cpc = "closed" /\ wpc = "dead" /\ jpc = "returned"
    /\ Len(q) >= 2 /\ Last(q) = None
    /\ out = <<>>

-----------------------------------------------------------------------------
(* Claims about requests served at once, checked under SpecJobs *)

(* C20: when two or more jobs run concurrently, each owns its own queue,   *)
(* worker thread and result container: every record relayed on a job's     *)
(* stream was posted by that job's own worker, in the order posted; each   *)
(* job gets at most one terminal record, exactly one once its stream has   *)
(* ended, and that record is built from the result of its own worker; this *)
(* holds in every interleaving of the jobs.                                *)
C20_JobsIsolated ==
    \A j \in Jobs :
       LET relayed == ProgressOf(out[j])
           rc      == result_container[j]
       IN  /\ \A k \in 1..Len(relayed) : relayed[k].by = j
           /\ IsPrefix(relayed, posted[j])
           /\ \A k \in 1..Len(q[j]) : q[j][k] # None => q[j][k].by = j
           /\ Terminals(out[j]) \subseteq {Len(out[j])}
           /\ cpc[j] = "end" =>
                 /\ Terminals(out[j]) = {Len(out[j])}
                 /\ jpc[j] = "returned" =>
                       /\ Last(out[j]).type = "complete"
                       /\ Len(IF kind[j] = "analyze" THEN Last(out[j]).scenes
                              ELSE Last(out[j]).files) = j
                 /\ jpc[j] = "raised" =>
                       Last(out[j]) = [type |-> "error",
                                       message |-> <<"job failed", j>>]

\* two streams have ended, one with its own progress and complete record,
\* the other with the error of its own worker
C20_Witness ==
    /\ \A j \in Jobs : cpc[j] = "end"
    /\ \E a, b \in Jobs :
          /\ a # b
          /\ Len(out[a]) = 2 /\ Last(out[a]).type = "complete"
          /\ out[a][1].by = a
          /\ Last(out[b]).type = "error" /\ jpc[b] = "raised"

-----------------------------------------------------------------------------
(* Claims about split_video, checked under SpecSplit *)

Abs(x) == IF x < 0 THEN -x ELSE x

\* frame_duration as the claim gives it, in microseconds
C10_FrameDuration ==
    IF video.opens /\ video.fps > 0 THEN 1000000 \div video.fps ELSE 33000

(* C10 as stated: the seek offset passed for scene i equals the raw start  *)
(* when i = 0 and start + 0.5 * frame_duration when i > 0, so that for     *)
(* i > 0 it strictly exceeds the raw start; the duration passed is         *)
(* end - start.                                                            *)
C10_Original ==
    \A k \in 1..Len(cmds) :
       LET start == scenes[k][1]
           end   == scenes[k][2]
           ss    == cmds[k].ss * 1000
       IN  /\ k = 1 => ss = start
           /\ k > 1 => ss = start + C10_FrameDuration \div 2 /\ ss > start
           /\ cmds[k].t = end - start

(* C10 as amended: the seek offset passed is adj_start written with three  *)
(* decimals, so it lies within half a millisecond of adj_start (the raw    *)
(* start when i = 0, start + 0.5 * frame_duration when i > 0); for i > 0   *)
(* it strictly exceeds the raw start whenever frame_duration is above one  *)
(* millisecond; the duration passed is end - start.                        *)
C10_SeekOffset ==
    \A k \in 1..Len(cmds) :
       LET start == scenes[k][1]
           end   == scenes[k][2]
           adj   == IF k = 1 THEN start ELSE start + C10_FrameDuration \div 2
           ss    == cmds[k].ss * 1000
       IN  /\ Abs(ss - adj) <= 500
           /\ (k > 1 /\ C10_FrameDuration > 1000) => ss > start
           /\ cmds[k].t = end - start

\* a finished split whose first scene starts off the millisecond grid and
\* whose second scene got its half-frame nudge
C10_Witness ==
    /\ jpc = "returned" /\ Len(cmds) >= 2
    /\ scenes[1][1] % 1000 # 0
    /\ cmds[1].ss * 1000 # scenes[1][1]
    /\ video.opens /\ video.fps = 25
    /\ cmds[2].ss * 1000 = scenes[2][1] + 20000

-----------------------------------------------------------------------------
(* Claims about group_scenes, checked under SpecGroup *)

\* the 1-based positions in processed_scenes of the scenes of batch b (0-based)
BatchScenes(b) ==
    (BatchStart(b) + 1)..BatchEnd(b, Len(processed_scenes))

BatchSize(b) == BatchEnd(b, Len(processed_scenes)) - BatchStart(b)

\* the integer entries of the sub-lists of a decoded response
NamedIndices(parsed) ==
    {parsed[g].v[e].v : <<g, e>> \in
        {<<g, e>> \in (1..Len(parsed)) \X (1..BATCH_SIZE) :
            /\ parsed[g].t = "list"
            /\ e <= Len(parsed[g].v)
            /\ parsed[g].v[e].t = "int"}}

(* C5: group_scenes never fails its caller: whatever the thumbnail         *)
(* extraction, the stitching and the model do in any batch, no exception   *)
(* leaves the call.                                                        *)
C5_NeverRaises == gpc # "raised"

(* C6: while a batch is processed, group_id is set only on scenes of that  *)
(* batch's own range [batch_start, batch_end): taking a sub-list changes   *)
(* only the scenes its integer entries from 1 to the batch's size name; an *)
(* entry below 1, above the batch's size or not an integer changes no      *)
(* scene, in this batch or any other, and does not make the batch fail.    *)
C6_OnlyOwnBatch ==
    [][(gpc = "groups" /\ group_k < Len(groups)) =>
          /\ \A k \in 1..Len(processed_scenes) :
                processed_scenes'[k] # processed_scenes[k] =>
                   \E x \in NamedIndices(<<groups[group_k + 1]>>) :
                      /\ 1 <= x /\ x <= BatchSize(batch_i)
                      /\ k = BatchStart(batch_i) + x
          /\ glog' # glog => Last(glog').outcome # "index_error"]_vars

\* the outcomes the claim calls an error of the batch
C7_ErrorOutcomes == {"query_raised", "no_match", "json_error", "type_error"}

(* C7: when the processing of a batch hits an error (the query raises, no  *)
(* bracketed list parses, or the decoded JSON is no list of lists of       *)
(* integers), no scene of that batch carries a group_id when group_scenes  *)
(* returns, and every batch was processed.                                 *)
C7_FailedBatchUngrouped ==
    gpc = "returned" =>
       /\ Len(glog) = NumBatches(Len(processed_scenes))
       /\ \A b \in 1..Len(glog) :
             glog[b].outcome \in C7_ErrorOutcomes =>
                \A k \in BatchScenes(b - 1) : processed_scenes[k].group_id = 0

C9_TakesGroup == gpc = "groups" /\ group_k < Len(groups)

(* C9: group ids come from one counter that starts at 0, grows by exactly  *)
(* 1 for each sub-list taken and never otherwise changes (no reset between *)
(* batches), and every valid member of a sub-list (an integer from 1 to    *)
(* the batch's size) carries that sub-list's id once the sub-list was      *)
(* taken.                                                                  *)
C9_CounterAndMembers ==
    [][/\ gpc = "call" => group_id_offset' = 0
       /\ (gpc # "call" /\ ~C9_TakesGroup) => group_id_offset' = group_id_offset
       /\ C9_TakesGroup =>
             /\ group_id_offset' = group_id_offset + 1
             /\ \A x \in NamedIndices(<<groups[group_k + 1]>>) :
                   (1 <= x /\ x <= BatchSize(batch_i)) =>
                      processed_scenes'[BatchStart(batch_i) + x].group_id
                         = group_id_offset']_vars

\* the three decimal digits of k, for k from 0 to 999
C11_ThreeDigits(k) == <<k \div 100, (k \div 10) % 10, k % 10>>

\* the numbers a split of up to 999 scenes puts in its file names
C11_SceneNumbers == 1..999

\* f"{i+1:03d}" of each of these numbers is its three digits, and the
\* number is read back from them: no two numbers share a text
C11_NumbersDistinct ==
    \A a \in C11_SceneNumbers :
       /\ Pad3(a) = C11_ThreeDigits(a)
       /\ Pad3(a)[1] * 100 + Pad3(a)[2] * 10 + Pad3(a)[3] = a

(* C11: splitting a list of N scenes issues exactly one transcode          *)
(* invocation per scene, in input order, and returns exactly N output      *)
(* paths in input order, the i-th (1-based) being                          *)
(* {basename}_scene_{i as 3 digits}.mp4 whatever the extension of the      *)
(* input file; the paths are pairwise distinct for N <= 999.               *)
C11_OnePathPerScene ==
    /\ Len(cmds) = sp_i /\ Len(created_files) = sp_i /\ sp_i <= Len(scenes)
    /\ jpc = "returned" => Len(created_files) = Len(scenes)
    /\ \A k \in 1..Len(cmds) :
          /\ cmds[k].t = scenes[k][2] - scenes[k][1]
          /\ Abs(cmds[k].ss * 1000 - scenes[k][1]) <= 500 + frame_duration \div 2
          /\ cmds[k].output_file = created_files[k]
          /\ created_files[k] = [base |-> video.name, num |-> C11_ThreeDigits(k),
                                 ext |-> ".mp4"]
    /\ \A a, b \in 1..Len(created_files) :
          a # b => created_files[a] # created_files[b]
    /\ C11_NumbersDistinct

\* a returned split of three scenes of an input that is no .mp4 file
C11_Witness ==
    /\ jpc = "returned" /\ Len(scenes) = 3 /\ video.ext # ".mp4"
    /\ Len(created_files) = 3
    /\ created_files[3].num = <<0, 0, 3>>

(* C15: generate_thumbnail raises an error whenever the extraction process *)
(* exits non-zero or produces empty output; it returns bytes to its caller *)
(* only when the process exited with status zero and the output is         *)
(* non-empty.                                                              *)
C15_EmptyOutputRaises ==
    \A k \in 1..Len(thumb_calls) :
       LET c == thumb_calls[k]
       IN  /\ (c.ran /\ (c.returncode # 0 \/ c.output = "empty")) => c.raised
           /\ ~c.raised => /\ c.ran /\ c.returncode = 0
                           /\ c.output # "empty" /\ c.bytes = c.output

\* a thumbnail of batch b (1-based in glog) failed: fewer files than scenes
C16_ThumbnailFailed(b) == Len(glog[b].labels) < BatchSize(b - 1)

(* C16: if generating the thumbnail of any scene of a batch fails, the     *)
(* whole batch is skipped: no vision-model query is issued for that batch, *)
(* none of its scenes receives a group_id, and the following batches are   *)
(* still processed.                                                        *)
C16_FailedThumbnailSkipsBatch ==
    /\ \A b \in 1..Len(glog) :
          C16_ThumbnailFailed(b) =>
             /\ ~glog[b].queried
             /\ gpc = "returned" =>
                   \A k \in BatchScenes(b - 1) : processed_scenes[k].group_id = 0
    /\ gpc = "returned" => Len(glog) = NumBatches(Len(processed_scenes))

(* C17: in every batch sent to the model, the grid cell labelled k shows   *)
(* the thumbnail of the scene at global index batch_start + k - 1, the     *)
(* scene group_scenes assigns when the response names local index k,       *)
(* whatever thumbnails of the batch succeeded or failed.                   *)
C17_LabelIsLocalIndex ==
    \A b \in 1..Len(glog) :
       glog[b].queried =>
          LET cells == GridCells(glog[b].labels)
          IN  \A c \in 1..Len(cells) :
                 cells[c].shows = GlobalIdx(BatchStart(b - 1), cells[c].label)

\* how many queries were issued for batch j (0-based)
C18_QueriesOf(j) == Cardinality({k \in 1..Len(queries) : queries[k] = j})

\* the batches are consecutive ranges of 1 to 9 scenes and every scene is in
\* exactly one of them; they are taken in ascending order, one at a time,
\* and no batch is queried before the batches below it are finished
C18_BatchesInOrder ==
    /\ gpc \notin {"call", "off"} =>
          LET n  == Len(processed_scenes)
              bs == 0..(NumBatches(n) - 1)
          IN  /\ Len(processed_scenes) = Len(scenes)
              /\ \A b \in bs : BatchSize(b) >= 1 /\ BatchSize(b) <= 9
              /\ \A b \in bs : BatchStart(b) = 9 * b
              /\ \A k \in 1..n :
                    Cardinality({b \in bs : k \in BatchScenes(b)}) = 1
              /\ batch_i <= NumBatches(n)
              /\ gpc = "returned" => batch_i = NumBatches(n)
    /\ Len(glog) = batch_i
    /\ \A b \in 1..Len(glog) : glog[b].batch = b - 1
    /\ \A k \in 1..Len(queries) :
          /\ queries[k] <= Len(glog)
          /\ queries[k] <= batch_i
          /\ k > 1 => queries[k - 1] < queries[k]

(* C18 as stated: group_scenes partitions the scene list into consecutive  *)
(* batches of at most 9 scenes so that every scene belongs to exactly one  *)
(* batch, processes the batches strictly in ascending order one at a time, *)
(* and issues exactly one vision-model query per batch.                    *)
C18_Original ==
    /\ C18_BatchesInOrder
    /\ \A b \in 1..Len(glog) : C18_QueriesOf(b - 1) = 1

(* C18 as amended: the same partition and order, with at most one query    *)
(* per batch: exactly one for every finished batch for which at least one  *)
(* thumbnail was written, and none for a batch in which every thumbnail    *)
(* failed; no query is issued for a batch before the batches below it are  *)
(* finished.                                                               *)
C18_OneQueryPerStitchedBatch ==
    /\ C18_BatchesInOrder
    /\ \A j \in 0..MaxScenes : C18_QueriesOf(j) <= 1
    /\ \A b \in 1..Len(glog) :
          /\ glog[b].labels # <<>> => C18_QueriesOf(b - 1) = 1
          /\ glog[b].labels = <<>> => C18_QueriesOf(b - 1) = 0
          /\ glog[b].queried <=> C18_QueriesOf(b - 1) = 1

\* a returned call on ten scenes: two batches, the first skipped with no
\* thumbnail, the second queried
C18_Witness ==
    /\ gpc = "returned" /\ Len(processed_scenes) > BATCH_SIZE
    /\ Len(glog) = 2
    /\ glog[1].outcome = "no_thumbnails"
    /\ queries = <<1>>

\* text decodes to a list of lists: a JSON list, not empty, of lists
C22_IsListOfLists(text) ==
    LET j == JsonLoads(text)
    IN  /\ j.ok /\ j.val.t = "list" /\ j.val.v # <<>>
        /\ \A k \in 1..Len(j.val.v) : j.val.v[k].t = "list"

\* the substrings of content that hold a valid list of lists, as <<from, to>>
C22_Lists(content) ==
    {ab \in Positions(content, "[") \X Positions(content, "]") :
        ab[1] < ab[2] /\ C22_IsListOfLists(SubSeq(content, ab[1], ab[2]))}

\* for each response text, the first valid list of lists it holds: the
\* leftmost, and of those the longest
C22_Expected ==
    [content \in Responses |->
        LET ls == C22_Lists(content)
        IN  IF ls = {} THEN [found |-> FALSE, val |-> <<>>]
            ELSE LET a == SetMin({ab[1] : ab \in ls})
                     b == SetMax({ab[2] : ab \in {x \in ls : x[1] = a}})
                 IN  [found |-> TRUE,
                      val |-> JsonLoads(SubSeq(content, a, b)).val.v]]

(* C22: a batch's grouping is decoded from the first well-formed bracketed *)
(* list substring of the response text: a response that holds a valid list *)
(* of lists surrounded by other text, also text with bracket characters    *)
(* before or after the list, is decoded to that list; the batch is skipped *)
(* as undecodable only when no substring of the response decodes.          *)
C22_DecodesFirstList ==
    \A k \in 1..Len(responses) :
       (~responses[k].raised /\ queries[k] < Len(glog)) =>
          LET e == glog[queries[k] + 1]
              x == C22_Expected[responses[k].content]
          IN  x.found => /\ e.outcome \notin {"no_match", "json_error"}
                         /\ e.parsed = x.val

(* C23: group_scenes returns a list of the same length and order as its    *)
(* input in which every entry's start, end and scene_number equal the      *)
(* input entry's; the only field it adds or changes is group_id; the       *)
(* caller's input list and its entries are left as they were; an empty     *)
(* input yields an empty list with no thumbnail extraction and no query.   *)
C23_OnlyGroupIdAdded ==
    /\ scenes = SceneDicts(Len(scenes))
    /\ gpc # "call" =>
          /\ Len(processed_scenes) = Len(scenes)
          /\ \A k \in 1..Len(scenes) :
                /\ DOMAIN processed_scenes[k] = DOMAIN scenes[k] \cup {"group_id"}
                /\ \A f \in DOMAIN scenes[k] :
                      processed_scenes[k][f] = scenes[k][f]
                /\ processed_scenes[k].group_id \in 0..group_id_offset
    /\ scenes = <<>> =>
          /\ gpc \in {"call", "returned"}
          /\ processed_scenes = <<>>
          /\ thumb_calls = <<>> /\ queries = <<>> /\ glog = <<>>

\* a returned call on more than one batch of scenes in which scenes of two
\* batches were given a group_id
C23_Witness ==
    /\ gpc = "returned" /\ Len(scenes) > BATCH_SIZE
    /\ processed_scenes[1].group_id # 0
    /\ processed_scenes[BATCH_SIZE + 1].group_id # 0
    /\ "group_id" \notin DOMAIN scenes[1]

=============================================================================
